---- MODULE Spec2Model ----
(***************************************************************************)
(* Model of src/lambda_function.py: the S3-triggered thumbnail generator.  *)
(*                                                                         *)
(* Strings are sequences of one-character strings, so that decoding,       *)
(* splitting, lowercasing and sanitising are computed character by         *)
(* character as the Python code does.                                      *)
(*                                                                         *)
(* Each invocation of lambda_handler is a process i \in Inv.  Its code is  *)
(* cut at the calls to S3 (download_file, head_object, upload_file): a     *)
(* step is one such call with the local statements that follow it up to    *)
(* the next call.  The thumbnail of an absent width is made in the step of *)
(* the head_object call that answered 404, and the final cleanup and       *)
(* return in the step that leaves the loop.                                *)
(*                                                                         *)
(* Fault model: download_file, head_object, upload_file and the image      *)
(* library may raise; tempfile.mkdtemp, os.remove and os.rmdir on the      *)
(* invocation's private directory succeed.                                 *)
(***************************************************************************)
EXTENDS Integers, Sequences, FiniteSets, TLC

(***************************************************************************)
(* Bounds                                                                  *)
(***************************************************************************)
NumInv == 2        \* invocations that may run concurrently
NumTokens == 2     \* distinct values uuid4().hex[:8] may take in the model
MaxDim == 25       \* source images are at most MaxDim x MaxDim pixels

Inv == 1..NumInv

(***************************************************************************)
(* String helpers                                                          *)
(***************************************************************************)
Upper == <<"A","B","C","D","E","F","G","H","I","J","K","L","M",
           "N","O","P","Q","R","S","T","U","V","W","X","Y","Z">>
Lowercase == <<"a","b","c","d","e","f","g","h","i","j","k","l","m",
               "n","o","p","q","r","s","t","u","v","w","x","y","z">>

\* str.lower() on one character
LowerChar(c) ==
    IF \E k \in 1..26 : Upper[k] = c
    THEN Lowercase[CHOOSE k \in 1..26 : Upper[k] = c]
    ELSE c

\* str.lower()
lower(s) == [k \in 1..Len(s) |-> LowerChar(s[k])]

\* str.startswith(prefix)
startswith(s, prefix) ==
    /\ Len(s) >= Len(prefix)
    /\ SubSeq(s, 1, Len(prefix)) = prefix

\* str.rfind(c), 1-based; 0 when c does not occur
rfind(s, c) ==
    IF \E k \in 1..Len(s) : s[k] = c
    THEN CHOOSE k \in 1..Len(s) : s[k] = c /\ \A m \in (k+1)..Len(s) : s[m] # c
    ELSE 0

\* str.replace(old, new) for single characters
replace(s, old, new) == [k \in 1..Len(s) |-> IF s[k] = old THEN new ELSE s[k]]

Digit == <<"0","1","2","3","4","5","6","7","8","9">>

\* str(n) for a natural number n
RECURSIVE str(_)
str(n) == IF n < 10 THEN <<Digit[n + 1]>>
          ELSE str(n \div 10) \o <<Digit[(n % 10) + 1]>>

\* The percent escapes the modelled event keys use: %XX -> character
HexPairs == { <<"2","0">>, <<"2","8">>, <<"2","9">>, <<"2","B">>, <<"2","b">> }
HexChar(p) == IF p = <<"2","0">> THEN " "
              ELSE IF p = <<"2","8">> THEN "("
              ELSE IF p = <<"2","9">> THEN ")"
              ELSE "+"

\* urllib.parse.unquote: an escape that is not %XX is left as it is
RECURSIVE unquote(_)
unquote(s) ==
    IF s = <<>> THEN <<>>
    ELSE IF s[1] = "%" /\ Len(s) >= 3 /\ SubSeq(s, 2, 3) \in HexPairs
         THEN <<HexChar(SubSeq(s, 2, 3))>> \o unquote(SubSeq(s, 4, Len(s)))
         ELSE <<s[1]>> \o unquote(Tail(s))

\* urllib.parse.unquote_plus: '+' becomes a space, then percent-decoding
unquote_plus(s) == unquote(replace(s, "+", " "))

\* os.path.basename
basename(p) == SubSeq(p, rfind(p, "/") + 1, Len(p))

\* os.path.splitext: <<root, ext>>; the extension starts at the last dot of
\* the last path component, unless that component has only leading dots
splitext(p) ==
    LET sepIndex == rfind(p, "/")
        dotIndex == rfind(p, ".")
    IN  IF /\ dotIndex > sepIndex
           /\ \E k \in (sepIndex + 1)..(dotIndex - 1) : p[k] # "."
        THEN <<SubSeq(p, 1, dotIndex - 1), SubSeq(p, dotIndex, Len(p))>>
        ELSE <<p, <<>> >>

(***************************************************************************)
(* Program constants                                                       *)
(***************************************************************************)
SOURCE_PREFIX == <<"s","o","u","r","c","e","_","i","m","a","g","e","/">>
PROCESSED_PREFIX ==
    <<"p","r","o","c","e","s","s","e","d","_","i","m","a","g","e","/">>
S3_SCHEME == <<"s","3",":","/","/">>
EXT_JPG == <<".","j","p","g">>
EXT_JPEG == <<".","j","p","e","g">>
EXT_PNG == <<".","p","n","g">>
SUPPORTED_EXT == {EXT_JPG, EXT_JPEG, EXT_PNG}
sizes == <<200, 300, 500, 1000>>
TokenLen == 8

\* sanitize_filename
sanitize_filename(filename) ==
    replace(replace(replace(filename, " ", "_"), "(", "_"), ")", "_")

(***************************************************************************)
(* Inputs                                                                  *)
(***************************************************************************)
\* event['Records'][0]['s3']['bucket']['name']
bucket_name == <<"b","k","t">>

\* URL-encoded object keys the trigger may deliver
KeyPlusPng == SOURCE_PREFIX \o <<"a","+","b",".","p","n","g">>
KeyParenPNG == SOURCE_PREFIX \o <<"a","%","2","8","b",".","P","N","G">>
KeyJpeg == SOURCE_PREFIX \o <<"a","_","b",".","J","P","E","G">>
KeyJpg == SOURCE_PREFIX \o <<"c",".","j","p","g">>
KeyWrongPrefix == <<"a","r","c","h","i","v","e","/","d",".","j","p","g">>
KeyGif == SOURCE_PREFIX \o <<"x",".","g","i","f">>
KeyDotOnly == SOURCE_PREFIX \o <<".","p","n","g">>
EventKeys == {KeyPlusPng, KeyParenPNG, KeyJpeg, KeyJpg,
              KeyWrongPrefix, KeyGif, KeyDotOnly}

\* uuid.uuid4().hex[:8]: TokenLen lowercase hex digits
HexDigits == <<"0","1","2","3","4","5","6","7","8","9","a","b","c","d","e","f">>
Token(n) == [k \in 1..TokenLen |-> IF k = TokenLen THEN HexDigits[n] ELSE "0"]
Tokens == {Token(n) : n \in 1..NumTokens}

(***************************************************************************)
(* State                                                                   *)
(***************************************************************************)
VARIABLES
    storage,          \* the bucket: key -> [by, size], who uploaded the object
    event,            \* the trigger event (URL-encoded key) of each invocation
    pc,               \* position of each invocation in lambda_handler
    object_key,       \* the handler's local variables, per invocation
    file_ext,
    file_name,
    random_id,
    sanitized_name,
    base_file_name,
    save_ext,
    folder_path,
    temp_dir,         \* [exists, files]: the scratch directory and its files
    idx,              \* position of the width loop in sizes
    s3_key,
    processed_files,
    response,         \* value returned by the invocation
    log,              \* S3 calls made by the invocation, in order
    predecessors,     \* invocations that had returned the summary when this
                      \* one began
    img_size,         \* <<original_width, original_height>> of an opened image
    width,            \* target width handed to compress_and_create_thumbnail
    new_height        \* height it computed

nameVars == <<object_key, file_ext, file_name, random_id, sanitized_name,
              base_file_name, save_ext, folder_path>>
resizeVars == <<img_size, width, new_height>>
vars == <<storage, event, pc, nameVars, temp_dir, idx, s3_key,
          processed_files, response, log, predecessors, resizeVars>>

(***************************************************************************)
(* Names derived in lambda_handler, lines 35-76                            *)
(***************************************************************************)
\* variant: the prefix test of line 38 lets every key through
HasSourcePrefixAny(key) == TRUE

\* the ingress tests of lines 38 and 44
HasSourcePrefix(key) == startswith(key, SOURCE_PREFIX)
IsSupported(ext) == ext \in SUPPORTED_EXT

\* line 43
FileExt(key) == lower(splitext(key)[2])
\* lines 49-50
NameWithoutExt(key) == splitext(basename(key))[1]
\* variant: the token is left out of the base name
BaseFileNameNoToken(name, token) == name

\* line 57
BaseFileName(name, token) == name \o <<"_">> \o token
\* variant: the output keeps the extension of the source
SaveExtKeep(ext) == ext

\* line 59
SaveExt(ext) == IF lower(ext) = EXT_PNG THEN EXT_PNG ELSE EXT_JPG
\* line 60
FolderPath(base) == PROCESSED_PREFIX \o base \o <<"/">>
\* line 74
OutputFileName(size, base, ext) == str(size) \o <<"_">> \o base \o ext
\* line 76
S3Key(folder, output_file_name) == folder \o output_file_name
\* line 90
Location(bucket, key) == S3_SCHEME \o bucket \o <<"/">> \o key

\* output_file_name of invocation i for a width
output_file_name(i, size) == OutputFileName(size, base_file_name[i], save_ext[i])

(***************************************************************************)
(* Responses                                                               *)
(***************************************************************************)
NoResponse == [statusCode |-> 0, kind |-> "none", processed_files |-> <<>>]
SkippedResponse ==
    [statusCode |-> 200, kind |-> "Skipped", processed_files |-> <<>>]
UnsupportedResponse ==
    [statusCode |-> 200, kind |-> "Unsupported", processed_files |-> <<>>]
CompleteResponse(files) ==
    [statusCode |-> 200, kind |-> "complete", processed_files |-> files]
ErrorResponse ==
    [statusCode |-> 500, kind |-> "error", processed_files |-> <<>>]

NoDir == [exists |-> FALSE, files |-> {}]
NoEvent == <<>>

LogEntry(op, size, result, other) ==
    [op |-> op, size |-> size, result |-> result, other |-> other]

(***************************************************************************)
(* Initial states                                                          *)
(***************************************************************************)
\* objects left in the bucket by an earlier invocation that drew Token(1)
\* for a source named "a b.png": any subset of its outputs may exist
EarlierBase == BaseFileName(<<"a","_","b">>, Token(1))
EarlierKey(size) ==
    S3Key(FolderPath(EarlierBase), OutputFileName(size, EarlierBase, EXT_PNG))
EarlierObjects(W) ==
    [k \in {EarlierKey(w) : w \in W} |->
        [by |-> 0, size |-> CHOOSE w \in W : EarlierKey(w) = k]]
Widths == {sizes[k] : k \in 1..Len(sizes)}

InitLocals ==
    /\ pc = [i \in Inv |-> "start"]
    /\ object_key = [i \in Inv |-> <<>>]
    /\ file_ext = [i \in Inv |-> <<>>]
    /\ file_name = [i \in Inv |-> <<>>]
    /\ random_id = [i \in Inv |-> <<>>]
    /\ sanitized_name = [i \in Inv |-> <<>>]
    /\ base_file_name = [i \in Inv |-> <<>>]
    /\ save_ext = [i \in Inv |-> <<>>]
    /\ folder_path = [i \in Inv |-> <<>>]
    /\ temp_dir = [i \in Inv |-> NoDir]
    /\ idx = [i \in Inv |-> 0]
    /\ s3_key = [i \in Inv |-> <<>>]
    /\ processed_files = [i \in Inv |-> <<>>]
    /\ response = [i \in Inv |-> NoResponse]
    /\ log = [i \in Inv |-> <<>>]
    /\ predecessors = [i \in Inv |-> {}]

InitResizeIdle ==
    /\ img_size = <<0, 0>>
    /\ width = 0
    /\ new_height = 0

\* one invocation, triggered by any of the events, on a bucket that may hold
\* outputs of an earlier invocation
Init ==
    /\ \E W \in SUBSET Widths : storage = EarlierObjects(W)
    /\ \E raw \in EventKeys :
         event = [i \in Inv |-> IF i = 1 THEN raw ELSE NoEvent]
    /\ InitLocals
    /\ InitResizeIdle

\* every invocation is triggered, by an event for one of a few source
\* objects; the bucket holds no outputs yet
ConcKeys == {KeyPlusPng, KeyParenPNG, KeyGif}
InitConc ==
    /\ storage = << >>
    /\ event \in [Inv -> ConcKeys]
    /\ InitLocals
    /\ InitResizeIdle

(***************************************************************************)
(* lambda_handler                                                          *)
(***************************************************************************)
\* the value of a function with one more (or one replaced) argument
Put(f, k, v) == [x \in (DOMAIN f) \cup {k} |-> IF x = k THEN v ELSE f[x]]

\* who uploaded the object at key; 0 when the key is absent
Writer(key) == IF key \in DOMAIN storage THEN storage[key].by ELSE 0

\* except Exception (lines 120-125): the failure response is returned and
\* nothing else is done
Raise(i) ==
    /\ pc' = [pc EXCEPT ![i] = "failed"]
    /\ response' = [response EXCEPT ![i] = ErrorResponse]

\* lines 98-106: remove the input file, then try to remove the directory;
\* rmdir fails, silently, on a directory that is not empty
CleanUp(i, files) ==
    LET left == files \ {file_name[i]}
    IN  [exists |-> left # {}, files |-> left]

\* The loop header of line 73 for position k of sizes, with the scratch files
\* and the locations the step leaves behind.  Lines 74-76 name the outputs of
\* the next width; after the last width, lines 98-119 clean up and return
\* the summary.
EnterIteration(i, k, files, processed) ==
    /\ idx' = [idx EXCEPT ![i] = k]
    /\ processed_files' = [processed_files EXCEPT ![i] = processed]
    /\ IF k <= Len(sizes)
       THEN /\ s3_key' = [s3_key EXCEPT ![i] =
                             S3Key(folder_path[i], output_file_name(i, sizes[k]))]
            /\ temp_dir' = [temp_dir EXCEPT ![i] =
                               [exists |-> TRUE, files |-> files]]
            /\ pc' = [pc EXCEPT ![i] = "head"]
            /\ response' = response
       ELSE /\ s3_key' = s3_key
            /\ temp_dir' = [temp_dir EXCEPT ![i] = CleanUp(i, files)]
            /\ pc' = [pc EXCEPT ![i] = "done"]
            /\ response' = [response EXCEPT ![i] = CompleteResponse(processed)]

\* lines 32-46: the event is not eligible
StartSkip(i) ==
    /\ pc[i] = "start"
    /\ event[i] # NoEvent
    /\ LET key == unquote_plus(event[i])
       IN  /\ object_key' = [object_key EXCEPT ![i] = key]
           /\ IF ~HasSourcePrefix(key)
              THEN /\ response' = [response EXCEPT ![i] = SkippedResponse]
                   /\ file_ext' = file_ext
              ELSE /\ ~IsSupported(FileExt(key))
                   /\ response' = [response EXCEPT ![i] = UnsupportedResponse]
                   /\ file_ext' = [file_ext EXCEPT ![i] = FileExt(key)]
    /\ pc' = [pc EXCEPT ![i] = "skipped"]
    /\ UNCHANGED <<storage, event, file_name, random_id, sanitized_name,
                   base_file_name, save_ext, folder_path, temp_dir, idx, s3_key,
                   processed_files, log, predecessors>>
    /\ UNCHANGED resizeVars

\* lines 32-64: the event is eligible; derive the names and create the
\* scratch directory
Start(i) ==
    /\ pc[i] = "start"
    /\ event[i] # NoEvent
    /\ \E token \in Tokens :
         LET key == unquote_plus(event[i])
             name == sanitize_filename(NameWithoutExt(key))
             base == BaseFileName(name, token)
         IN  /\ HasSourcePrefix(key)
             /\ IsSupported(FileExt(key))
             /\ object_key' = [object_key EXCEPT ![i] = key]
             /\ file_ext' = [file_ext EXCEPT ![i] = FileExt(key)]
             /\ file_name' = [file_name EXCEPT ![i] = basename(key)]
             /\ random_id' = [random_id EXCEPT ![i] = token]
             /\ sanitized_name' = [sanitized_name EXCEPT ![i] = name]
             /\ base_file_name' = [base_file_name EXCEPT ![i] = base]
             /\ save_ext' = [save_ext EXCEPT ![i] = SaveExt(FileExt(key))]
             /\ folder_path' = [folder_path EXCEPT ![i] = FolderPath(base)]
    /\ temp_dir' = [temp_dir EXCEPT ![i] = [exists |-> TRUE, files |-> {}]]
    /\ pc' = [pc EXCEPT ![i] = "download"]
    /\ predecessors' = [predecessors EXCEPT ![i] = {j \in Inv : pc[j] = "done"}]
    /\ UNCHANGED <<storage, event, idx, s3_key, processed_files, response, log>>
    /\ UNCHANGED resizeVars

\* line 68, then lines 70-76 up to the first existence check
DownloadOk(i) ==
    /\ pc[i] = "download"
    /\ log' = [log EXCEPT ![i] = Append(@, LogEntry("download", 0, "ok", 0))]
    /\ EnterIteration(i, 1, temp_dir[i].files \cup {file_name[i]}, <<>>)
    /\ UNCHANGED <<storage, event, nameVars, predecessors>>
    /\ UNCHANGED resizeVars

\* variant: a failed download is not noticed and the width loop is entered
DownloadFailIgnored(i) ==
    /\ pc[i] = "download"
    /\ log' = [log EXCEPT ![i] = Append(@, LogEntry("download", 0, "fail", 0))]
    /\ EnterIteration(i, 1, temp_dir[i].files, <<>>)
    /\ UNCHANGED <<storage, event, nameVars, predecessors>>
    /\ UNCHANGED resizeVars

\* line 68 raises
DownloadFail(i) ==
    /\ pc[i] = "download"
    /\ log' = [log EXCEPT ![i] = Append(@, LogEntry("download", 0, "fail", 0))]
    /\ Raise(i)
    /\ UNCHANGED <<storage, event, nameVars, temp_dir, idx, s3_key,
                   processed_files, predecessors>>
    /\ UNCHANGED resizeVars

\* head_object answers 200 for a key that exists and 404 for one that does
\* not
HeadResult(key) == IF key \in DOMAIN storage THEN "200" ELSE "404"

\* the other ways head_object can end: a ClientError with another code, or
\* an exception that is no ClientError
HeadErrors == {"403", "EndpointConnectionError"}

\* variant: an existing output is made again
HeadBranchNoSkip(result) ==
    IF result = "200" \/ result = "404" THEN "proceed" ELSE "raise"

\* variant: every error of head_object is taken for not-found
HeadBranchSwallow(result) ==
    IF result = "200" THEN "continue" ELSE "proceed"

\* variant: the test of the existence check is inverted
HeadBranchInverted(result) ==
    IF result = "200" THEN "proceed"
    ELSE IF result = "404" THEN "continue"
    ELSE "raise"

\* lines 79-85: what the handler does with the answer
HeadBranch(result) ==
    IF result = "200" THEN "continue"
    ELSE IF result = "404" THEN "proceed"
    ELSE "raise"

\* what compress_and_create_thumbnail (line 88) can do to the scratch
\* directory: write the output file, or raise (in open, resize or save), and
\* a failed save may leave a partial output file behind
ThumbnailOutcomes == {"written", "raised", "raised, partial file"}

\* variant: head_object is asked about the file name without the folder
HeadKeyNoFolder(i) == output_file_name(i, sizes[idx[i]])

\* line 80: the key head_object is asked about
HeadKey(i) == s3_key[i]

\* lines 78-88 for a given answer of head_object and, when the width is to
\* be made, a given outcome of compress_and_create_thumbnail
HeadStep(i, result, thumbnail) ==
    LET out == output_file_name(i, sizes[idx[i]])
    IN
    /\ pc[i] = "head"
    /\ log' = [log EXCEPT ![i] = Append(@,
                  LogEntry("head", sizes[idx[i]], result,
                           IF result = "200" THEN Writer(HeadKey(i)) ELSE 0))]
    /\ CASE HeadBranch(result) = "continue" ->
                EnterIteration(i, idx[i] + 1, temp_dir[i].files,
                               processed_files[i])
         [] HeadBranch(result) = "proceed" ->
                /\ temp_dir' = [temp_dir EXCEPT ![i].files =
                                   IF thumbnail = "raised"
                                   THEN @ ELSE @ \cup {out}]
                /\ IF thumbnail = "written"
                   THEN /\ pc' = [pc EXCEPT ![i] = "upload"]
                        /\ UNCHANGED response
                   ELSE Raise(i)
                /\ UNCHANGED <<idx, s3_key, processed_files>>
         [] OTHER ->
                /\ Raise(i)
                /\ UNCHANGED <<idx, s3_key, temp_dir, processed_files>>
    /\ UNCHANGED <<storage, event, nameVars, predecessors>>
    /\ UNCHANGED resizeVars

\* head_object answers, and the thumbnail of an absent width is written
HeadObject(i) == HeadStep(i, HeadResult(HeadKey(i)), "written")

\* head_object fails
HeadObjectFail(i) == \E result \in HeadErrors : HeadStep(i, result, "written")

\* head_object answers 404 and compress_and_create_thumbnail raises
ThumbnailFail(i) ==
    /\ pc[i] = "head"
    /\ HeadResult(HeadKey(i)) = "404"
    /\ \E thumbnail \in ThumbnailOutcomes \ {"written"} :
         HeadStep(i, "404", thumbnail)

\* variant: the location is recorded before those of the smaller widths
RecordFront(processed, location) == <<location>> \o processed

\* line 90: the location is recorded after those of the smaller widths
Record(processed, location) == Append(processed, location)

\* variant: the output file of an uploaded width is not removed
UploadOkKeepFile(i) ==
    /\ pc[i] = "upload"
    /\ log' = [log EXCEPT ![i] = Append(@,
                  LogEntry("upload", sizes[idx[i]], "ok", Writer(s3_key[i])))]
    /\ storage' = Put(storage, s3_key[i], [by |-> i, size |-> sizes[idx[i]]])
    /\ EnterIteration(i, idx[i] + 1, temp_dir[i].files,
                      Record(processed_files[i], Location(bucket_name, s3_key[i])))
    /\ UNCHANGED <<event, nameVars, predecessors>>
    /\ UNCHANGED resizeVars

\* lines 89-96, then the next loop iteration up to its existence check
UploadOk(i) ==
    /\ pc[i] = "upload"
    /\ log' = [log EXCEPT ![i] = Append(@,
                  LogEntry("upload", sizes[idx[i]], "ok", Writer(s3_key[i])))]
    /\ storage' = Put(storage, s3_key[i], [by |-> i, size |-> sizes[idx[i]]])
    /\ EnterIteration(i, idx[i] + 1,
                      temp_dir[i].files \ {output_file_name(i, sizes[idx[i]])},
                      Record(processed_files[i], Location(bucket_name, s3_key[i])))
    /\ UNCHANGED <<event, nameVars, predecessors>>
    /\ UNCHANGED resizeVars

\* variant: a failed upload is isolated and the loop goes on to the next
\* width
UploadFailContinue(i) ==
    /\ pc[i] = "upload"
    /\ log' = [log EXCEPT ![i] = Append(@,
                  LogEntry("upload", sizes[idx[i]], "fail", 0))]
    /\ EnterIteration(i, idx[i] + 1, temp_dir[i].files, processed_files[i])
    /\ UNCHANGED <<storage, event, nameVars, predecessors>>
    /\ UNCHANGED resizeVars

\* line 89 raises
UploadFail(i) ==
    /\ pc[i] = "upload"
    /\ log' = [log EXCEPT ![i] = Append(@,
                  LogEntry("upload", sizes[idx[i]], "fail", 0))]
    /\ Raise(i)
    /\ UNCHANGED <<storage, event, nameVars, temp_dir, idx, s3_key,
                   processed_files, predecessors>>
    /\ UNCHANGED resizeVars

Next ==
    \E i \in Inv :
        \/ StartSkip(i)
        \/ Start(i)
        \/ DownloadOk(i)
        \/ DownloadFail(i)
        \/ HeadObject(i)
        \/ HeadObjectFail(i)
        \/ ThumbnailFail(i)
        \/ UploadOk(i)
        \/ UploadFail(i)

Spec == Init /\ [][Next]_vars

\* the same handler, invocations running concurrently
SpecConc == InitConc /\ [][Next]_vars

(***************************************************************************)
(* compress_and_create_thumbnail, lines 13-15                              *)
(***************************************************************************)
\* whether n is a power of two
RECURSIVE IsPowerOfTwo(_)
IsPowerOfTwo(n) == n = 1 \/ (n % 2 = 0 /\ IsPowerOfTwo(n \div 2))

RECURSIVE gcd(_, _)
gcd(a, b) == IF b = 0 THEN a ELSE gcd(b, a % b)

\* variant: the ratio is truncated before it is multiplied
NewHeightTruncRatio(target, original_width, original_height) ==
    {target * (original_height \div original_width)}

\* int(width * (original_height / original_width)) in double precision.  The
\* quotient is exact when the reduced denominator is a power of two, and so
\* is the product.  Otherwise the quotient is rounded; the rounded product
\* truncates to the floor of the exact value, except that a product whose
\* exact value is an integer n may come out just below n and truncate to
\* n - 1 (5 x 23 at width 200 gives 919, not 920).
NewHeight(target, original_width, original_height) ==
    LET exact == (target * original_height) % original_width = 0
        floor == (target * original_height) \div original_width
        denominator == original_width \div gcd(original_width, original_height)
    IN  IF exact /\ ~IsPowerOfTwo(denominator)
        THEN {floor, floor - 1}
        ELSE {floor}

InitResize ==
    /\ storage = << >>
    /\ event = [i \in Inv |-> NoEvent]
    /\ InitLocals
    /\ img_size \in (1..MaxDim) \X (1..MaxDim)
    /\ width = 0
    /\ new_height = 0

\* lines 13-15 for an opened image and a target width
ComputeHeight ==
    /\ width = 0
    /\ \E w \in Widths :
         /\ width' = w
         /\ new_height' \in NewHeight(w, img_size[1], img_size[2])
    /\ UNCHANGED <<storage, event, pc, nameVars, temp_dir, idx, s3_key,
                   processed_files, response, log, predecessors, img_size>>

NextResize == ComputeHeight

SpecResize == InitResize /\ [][NextResize]_vars

(***************************************************************************)
(* Properties                                                              *)
(***************************************************************************)
Entries(i, op) == {k \in 1..Len(log[i]) : log[i][k].op = op}
Count(i, op) == Cardinality(Entries(i, op))
HasHead(i, size, result) ==
    \E k \in Entries(i, "head") :
        log[i][k].size = size /\ log[i][k].result = result
UploadedWidths(i) ==
    {log[i][k].size : k \in {m \in Entries(i, "upload") : log[i][m].result = "ok"}}
ObjectsBy(i) == {k \in DOMAIN storage : storage[k].by = i}
Terminal(i) == pc[i] \in {"done", "failed", "skipped"}
AllExisted(i) == \A w \in Widths : HasHead(i, w, "200")
SuccessEmpty == [statusCode |-> 200, kind |-> "complete", processed_files |-> <<>>]
Failure(i) == pc[i] = "failed" /\ response[i].statusCode = 500
                               /\ response[i].kind = "error"

C2_FetchFailureIsFatal ==
    \A i \in Inv :
        (\E k \in Entries(i, "download") : log[i][k].result = "fail") =>
            /\ Failure(i)
            /\ Count(i, "head") = 0
            /\ Count(i, "upload") = 0
            /\ ObjectsBy(i) = {}

C2_Witness ==
    \E i \in Inv : pc[i] = "failed" /\ log[i] = <<LogEntry("download", 0, "fail", 0)>>

\* the eligibility of a decoded key, as the claim words it
Ineligible(key) ==
    \/ ~startswith(key, SOURCE_PREFIX)
    \/ lower(splitext(key)[2]) \notin {EXT_JPG, EXT_JPEG, EXT_PNG}

\* C3: an event whose decoded key lacks the source prefix or has an
\* unsupported extension ends in a skip status (200, no error) without any
\* existence check, fetch or upload, and without scratch storage.
C3_IneligibleIsSkipped ==
    \A i \in Inv :
        (pc[i] # "start" /\ Ineligible(object_key[i])) =>
            /\ pc[i] = "skipped"
            /\ response[i].statusCode = 200
            /\ response[i].kind \in {"Skipped", "Unsupported"}
            /\ (response[i].kind = "Skipped") = ~startswith(object_key[i], SOURCE_PREFIX)
            /\ log[i] = <<>>
            /\ ObjectsBy(i) = {}
            /\ temp_dir[i] = NoDir

C3_Witness ==
    \E i \in Inv :
        /\ pc[i] = "skipped"
        /\ response[i].kind = "Unsupported"
        /\ object_key[i] = SOURCE_PREFIX \o <<".","p","n","g">>

\* C4: an existence check that fails with anything but not-found is the
\* invocation's last call and ends it with the failure status; a width is
\* made and uploaded only right after its own check answered not-found.
C4_CheckFailureIsFatal ==
    \A i \in Inv :
        /\ \A k \in Entries(i, "head") :
               log[i][k].result \notin {"200", "404"} =>
                   /\ k = Len(log[i])
                   /\ Failure(i)
                   /\ log[i][k].size \notin UploadedWidths(i)
                   /\ temp_dir[i].files \subseteq {file_name[i]}
        /\ \A k \in Entries(i, "upload") :
               /\ k > 1
               /\ log[i][k - 1] = LogEntry("head", log[i][k].size, "404", 0)
        /\ pc[i] = "upload" =>
               log[i][Len(log[i])] = LogEntry("head", sizes[idx[i]], "404", 0)

C4_Witness ==
    \E i \in Inv :
        /\ pc[i] = "failed"
        /\ Len(log[i]) >= 4
        /\ log[i][Len(log[i])].op = "head"
        /\ log[i][Len(log[i])].result = "403"
        /\ UploadedWidths(i) # {}

\* the width a recorded location belongs to; 0 when it is no output location
\* of the invocation
WidthOf(i, location) ==
    LET ws == {w \in Widths : location =
                  Location(bucket_name,
                           S3Key(folder_path[i], output_file_name(i, w)))}
    IN  IF ws = {} THEN 0 ELSE CHOOSE w \in ws : TRUE

\* C5: at every point processed_files lists, in strictly ascending width
\* order and without duplicates, exactly the widths uploaded so far; a
\* skipped width never appears.
C5_ProcessedAscending ==
    \A i \in Inv :
        LET n == Len(processed_files[i])
        IN  /\ \A k \in 1..n : WidthOf(i, processed_files[i][k]) # 0
            /\ \A k, m \in 1..n :
                   k < m => WidthOf(i, processed_files[i][k])
                              < WidthOf(i, processed_files[i][m])
            /\ {WidthOf(i, processed_files[i][k]) : k \in 1..n} = UploadedWidths(i)
            /\ \A w \in Widths :
                   HasHead(i, w, "200") =>
                       \A k \in 1..n : WidthOf(i, processed_files[i][k]) # w

C5_Witness ==
    \E i \in Inv :
        /\ UploadedWidths(i) = {200, 500}
        /\ HasHead(i, 300, "200")
        /\ Len(processed_files[i]) = 2

\* C6: a run that begins after a run with the same fullBase (and the same
\* output extension) returned its summary uploads nothing: every width is
\* skipped as existing and no object of the bucket is written by it.
C6_SecondRunUploadsNothing ==
    \A i, j \in Inv :
        (/\ i \in predecessors[j]
         /\ base_file_name[i] = base_file_name[j]
         /\ save_ext[i] = save_ext[j]) =>
            /\ Count(j, "upload") = 0
            /\ \A w \in Widths : ~HasHead(j, w, "404")
            /\ ObjectsBy(j) = {}
            /\ pc[j] # "upload"
            /\ temp_dir[j].files \subseteq {file_name[j]}
            /\ pc[j] = "done" => (AllExisted(j) /\ response[j] = SuccessEmpty)

C6_Witness ==
    \E i, j \in Inv :
        /\ i \in predecessors[j]
        /\ base_file_name[i] = base_file_name[j]
        /\ UploadedWidths(i) = Widths
        /\ pc[j] = "done"
        /\ ObjectsBy(i) # {}

\* C7 as stated: in every terminal state, success or failure, no scratch
\* directory or file of the invocation remains.
C7_ScratchReleased ==
    \A i \in Inv : Terminal(i) => temp_dir[i] = NoDir

\* the output keys of an invocation
KeySet(i) == {S3Key(folder_path[i], output_file_name(i, w)) : w \in Widths}
Running(i) == pc[i] \notin {"start", "skipped"}
Interferes(i, j) == \E k \in 1..Len(log[i]) : log[i][k].other = j

\* C8 as stated: two invocations on the same source object have different
\* fullBase values and disjoint output keys; neither sees the other's
\* output in an existence check or overwrites it.
C8_Original ==
    \A i, j \in Inv :
        (i # j /\ Running(i) /\ Running(j) /\ object_key[i] = object_key[j]) =>
            /\ base_file_name[i] # base_file_name[j]
            /\ KeySet(i) \cap KeySet(j) = {}
            /\ ~Interferes(i, j)

\* C8 amended: two invocations on the same source object that drew
\* different tokens have different fullBase values and disjoint output keys;
\* neither sees the other's output in an existence check or overwrites it.
C8_DistinctTokensDisjoint ==
    \A i, j \in Inv :
        (/\ i # j /\ Running(i) /\ Running(j)
         /\ object_key[i] = object_key[j]
         /\ random_id[i] # random_id[j]) =>
            /\ base_file_name[i] # base_file_name[j]
            /\ KeySet(i) \cap KeySet(j) = {}
            /\ ~Interferes(i, j)
            /\ s3_key[i] = <<>> \/ s3_key[i] # s3_key[j]

C8_Witness ==
    \E i, j \in Inv :
        /\ i # j
        /\ object_key[i] = object_key[j]
        /\ random_id[i] # random_id[j]
        /\ pc[i] = "done" /\ UploadedWidths(i) = Widths
        /\ pc[j] = "done" /\ UploadedWidths(j) = Widths

\* the key layout as the claim gives it
ExpectedKey(b, t, w, ext) ==
    <<"p","r","o","c","e","s","s","e","d","_","i","m","a","g","e","/">>
    \o b \o <<"_">> \o t \o <<"/">> \o str(w) \o <<"_">> \o b \o <<"_">> \o t \o ext
ExpectedExt(key) ==
    IF lower(splitext(key)[2]) = <<".","p","n","g">>
    THEN <<".","p","n","g">> ELSE <<".","j","p","g">>
ExpectedKeyOf(i, w) ==
    ExpectedKey(sanitized_name[i], random_id[i], w, ExpectedExt(object_key[i]))

\* C9: the key that the existence check and the upload of width w use is
\* processed_image/{b}_{t}/{w}_{b}_{t}{ext}, with ext .png for a .png source
\* and .jpg otherwise; every uploaded object lies at that key, and the keys
\* of distinct widths are distinct.
C9_KeyLayout ==
    \A i \in Inv :
        /\ pc[i] \in {"head", "upload"} =>
               /\ s3_key[i] = ExpectedKeyOf(i, sizes[idx[i]])
               /\ HeadKey(i) = ExpectedKeyOf(i, sizes[idx[i]])
        /\ \A k \in ObjectsBy(i) : k = ExpectedKeyOf(i, storage[k].size)
        /\ Cardinality(ObjectsBy(i)) = Cardinality(UploadedWidths(i))
        /\ \A k \in 1..Len(sanitized_name[i]) :
               sanitized_name[i][k] \notin {" ", "(", ")"}

C9_Witness ==
    \E i \in Inv :
        /\ file_ext[i] = <<".","j","p","e","g">>
        /\ pc[i] = "done"
        /\ Cardinality(ObjectsBy(i)) = Len(sizes)

\* the integers nearest to width * H / W (two of them on a tie)
Nearest(w, W, H) ==
    LET q == (w * H) \div W
    IN  {n \in {q, q + 1} : 2 * (IF n * W >= w * H THEN n * W - w * H
                                                   ELSE w * H - n * W) <= W}

\* C10: the height computed for width w and a W x H source is within one
\* pixel of round(w * H / W).
C10_AspectRatio ==
    width # 0 =>
        \A r \in Nearest(width, img_size[1], img_size[2]) :
            new_height - r <= 1 /\ r - new_height <= 1

C10_Witness ==
    /\ width = 200
    /\ img_size = <<5, 23>>
    /\ new_height = 919

\* the per-width output files in the scratch directory of an invocation
OutputFiles(i) == temp_dir[i].files \ {file_name[i]}

\* C11: the scratch directory never holds more than one per-width output
\* file: there is none while a width is being checked, and while a width is
\* being uploaded the only one is that width's, the files of the widths
\* uploaded before having been removed.
C11_OneOutputFile ==
    \A i \in Inv :
        /\ Cardinality(OutputFiles(i)) <= 1
        /\ pc[i] \in {"download", "head", "done"} => OutputFiles(i) = {}
        /\ pc[i] = "upload" =>
               OutputFiles(i) = {str(sizes[idx[i]]) \o <<"_">>
                                   \o base_file_name[i] \o save_ext[i]}
        /\ \A w \in UploadedWidths(i) :
               (str(w) \o <<"_">> \o base_file_name[i] \o save_ext[i])
                   \notin temp_dir[i].files

C11_Witness ==
    \E i \in Inv :
        /\ pc[i] = "upload"
        /\ UploadedWidths(i) = {200, 300}
        /\ Cardinality(OutputFiles(i)) = 1

HeadsOf(i, w) == {k \in Entries(i, "head") : log[i][k].size = w}
UploadsOf(i, w) == {k \in Entries(i, "upload") : log[i][k].size = w}

\* C12: within one invocation every upload of a width comes after exactly
\* one existence check of that width's key, which answered not-found; a key
\* whose check answered present is never uploaded; each width is checked at
\* most once and uploaded at most once; check and upload use the same key.
C12_CheckBeforeUpload ==
    \A i \in Inv :
        /\ \A w \in Widths :
               /\ Cardinality(HeadsOf(i, w)) <= 1
               /\ Cardinality(UploadsOf(i, w)) <= 1
               /\ \A u \in UploadsOf(i, w) :
                      \E h \in HeadsOf(i, w) :
                          h < u /\ log[i][h].result = "404"
               /\ HasHead(i, w, "200") => UploadsOf(i, w) = {}
        /\ \A k \in 1..Len(log[i]) :
               log[i][k].op # "download" => log[i][k].size \in Widths
        /\ pc[i] = "upload" =>
               /\ HeadKey(i) = s3_key[i]
               /\ HasHead(i, sizes[idx[i]], "404")
        /\ \A k \in ObjectsBy(i) :
               /\ HasHead(i, storage[k].size, "404")
               /\ k = S3Key(folder_path[i],
                            output_file_name(i, storage[k].size))
        /\ \A k \in DOMAIN storage :
               storage[k].by = 0 =>
                   \A w \in Widths :
                       k = S3Key(folder_path[i], output_file_name(i, w))
                           => UploadsOf(i, w) = {}

C12_Witness ==
    \E i \in Inv :
        /\ pc[i] = "done"
        /\ HasHead(i, 200, "200")
        /\ HasHead(i, 500, "200")
        /\ UploadedWidths(i) = {300, 1000}

\* the width at which resize, encode or upload failed: the last call is a
\* failed upload, or a not-found check whose thumbnail could not be made
FailedAt(i) ==
    LET last == log[i][Len(log[i])]
    IN  IF /\ pc[i] = "failed"
           /\ log[i] # <<>>
           /\ \/ last.op = "upload" /\ last.result = "fail"
              \/ last.op = "head" /\ last.result = "404"
        THEN last.size
        ELSE 0

\* C13: when resize, encode or upload fails at a width after smaller widths
\* were uploaded, no later width is checked or uploaded, the response is the
\* failure status without any location, and the objects uploaded for the
\* smaller widths are still in the bucket.
C13_NoRollback ==
    \A i \in Inv :
        /\ \A k \in Entries(i, "upload") :
               log[i][k].result = "fail" => (k = Len(log[i]) /\ Failure(i))
        /\ (FailedAt(i) # 0 /\ UploadedWidths(i) # {}) =>
               /\ response[i] = [statusCode |-> 500, kind |-> "error",
                                 processed_files |-> <<>>]
               /\ \A k \in 1..Len(log[i]) : log[i][k].size <= FailedAt(i)
               /\ \A w \in UploadedWidths(i) :
                      /\ w < FailedAt(i)
                      /\ \E k \in ObjectsBy(i) : storage[k].size = w
               /\ Cardinality(ObjectsBy(i)) = Cardinality(UploadedWidths(i))
               /\ Len(processed_files[i]) = Cardinality(UploadedWidths(i))

C13_Witness ==
    \E i \in Inv :
        /\ FailedAt(i) = 500
        /\ log[i][Len(log[i])].op = "upload"
        /\ UploadedWidths(i) = {200, 300}
        /\ Cardinality(ObjectsBy(i)) = 2

====
